---- MODULE Spec2Model ----
(***************************************************************************)
(* Wallet ledger of proplex_backend: WalletService (getOrCreateWallet,     *)
(* createWallet, processTransaction, transferFunds, addAddress,            *)
(* setDefaultAddress, getWalletWithTransactions), the model static         *)
(* Wallet.processTransaction and the wallet handlers over the wallets      *)
(* collection; beside it the investments of InvestorService, the           *)
(* cancellation of orders and the bank accounts of a company.              *)
(* Every await of the service code is one step of a request,               *)
(* so that concurrent requests interleave exactly where the code yields.   *)
(* The document store is modelled by what the code relies on: multi-       *)
(* document transactions with snapshot isolation and first-writer-wins     *)
(* write conflicts, and unique indexes enforced on insert.                 *)
(***************************************************************************)
EXTENDS Integers, Sequences, FiniteSets, TLC

\* ---- bounds of the model ------------------------------------------------
SeedBalance == 2     \* amount of the deposit a funded wallet starts with
MaxWallets == 3      \* wallet documents the collection can hold
MaxAmount == 1       \* amounts a request may carry: 0..MaxAmount
MaxOps == 2          \* calls that commit in one behaviour, after the initial deposits
MaxAddresses == 3    \* entries an address list can grow to
MaxPage == 2         \* page numbers a history request may carry: -1..MaxPage
MaxClock == 1        \* milliseconds the clock may advance
MaxRandom == 1       \* random suffixes a reference may draw: 0..MaxRandom
MaxRecords == 3      \* transaction records a wallet may hold where references are followed
MaxInvestments == 3  \* documents the investors collection may hold
MaxBalance == 3      \* balances and amounts the two processTransaction are compared on
MaxAccounts == 2     \* bank accounts ever added to the company

Procs == {1, 2}      \* two requests in flight at a time
WalletIds == 1..MaxWallets
Amounts == 0..MaxAmount

\* ---- enums of wallet.model.ts -------------------------------------------
DEPOSIT == "deposit"
WITHDRAWAL == "withdrawal"
TRANSFER == "transfer"
TransactionType ==
    {DEPOSIT, WITHDRAWAL, TRANSFER, "payment", "refund", "commission", "bonus",
     "crypto_deposit", "crypto_withdrawal", "crypto_swap",
     "fiat_deposit", "fiat_withdrawal", "bank_transfer"}
WalletOwnerType == {"user", "investor", "company", "asset"}
WalletType == {"fiat", "crypto"}
AssetType == {"fiat", "crypto", "token"}

VARIABLES
    db,             \* committed wallets collection: WalletIds -> document
    schemaVersion,  \* which of the two walletSchema versions of wallet.model.ts is built
    proc,           \* per request: position in the handler and its locals
    sess,           \* per request: the store transaction of its ClientSession
    commitLog,      \* history: per wallet, <<type, amount>> of the calls that committed, in commit order
    nops,           \* history: number of service calls that have committed
    call,           \* a single service call seen from outside: its arguments and its outcome
    now,            \* the clock: what Date.now() returns
    investments,    \* the investors collection: sequence of documents, _id = position
    orders,         \* the orders collection: sequence of documents, _id = position
    company,        \* one company document: its bankAccounts array and its __v
    req             \* per request of the investor, order and company services: position and locals

\* the state outside the wallets collection and its requests
other == <<investments, orders, company, req>>

extra == <<now, other>>

vars == <<db, schemaVersion, proc, sess, commitLog, nops, call, extra>>

\* a request of the investor, order or company service that is not running
IdleReq == [pc |-> "idle", op |-> "none", user |-> 0, target |-> 0, doc |-> 0,
            result |-> "none", arg |-> "none", snap |-> <<>>, stale |-> FALSE]

\* a company with no bank account; created counts the accounts ever added, from
\* which the _id of the next one is drawn
NoCompany == [bankAccounts |-> <<>>, created |-> 0]

\* the investors and orders collections empty, no bank account, no request running
OtherServicesIdle ==
    /\ investments = <<>>
    /\ orders = <<>>
    /\ company = NoCompany
    /\ req = [p \in {1, 2} |-> IdleReq]

\* ---- documents ------------------------------------------------------------
NoWallet ==
    [exists |-> FALSE, ownerType |-> "", ownerId |-> 0, wtype |-> "", code |-> "",
     kind |-> "", balance |-> 0, availableBalance |-> 0, lockedBalance |-> 0,
     isActive |-> FALSE, transactions |-> <<>>,
     addresses |-> <<>>, defaultAddress |-> <<>>, version |-> 0]

\* the document both getOrCreateWallet ($setOnInsert) and createWallet insert
NewWallet(ownerType, ownerId, code, kind, wtype) ==
    [exists |-> TRUE, ownerType |-> ownerType, ownerId |-> ownerId, wtype |-> wtype,
     code |-> code, kind |-> kind, balance |-> 0, availableBalance |-> 0,
     lockedBalance |-> 0, isActive |-> TRUE, transactions |-> <<>>,
     addresses |-> <<>>, defaultAddress |-> <<>>, version |-> 0]

NoTxn == [type |-> "", amount |-> 0, balanceBefore |-> 0, balanceAfter |-> 0, peer |-> 0]

IdleProc ==
    [pc |-> "idle", op |-> "none", leg |-> 0, w |-> 0, s |-> 0, r |-> 0,
     amount |-> 0, ttype |-> "", seen |-> 0, txn |-> NoTxn, err |-> "none",
     result |-> "none", own |-> FALSE, ret |-> 0, key |-> <<>>, tries |-> 0,
     address |-> <<>>, doc |-> <<>>, ver |-> 0]

NoCall == [fn |-> "none"]

NoSession ==
    [active |-> FALSE, started |-> FALSE, held |-> {}, stale |-> {},
     priv |-> [w \in WalletIds |-> [balance |-> 0, transactions |-> <<>>]]]

\* ---- pure pieces of WalletService.processTransaction --------------------
\* investor.service.ts:498  { $inc: { balance: type === DEPOSIT ? amount : -amount } }
Signed(ttype, amount) == IF ttype = DEPOSIT THEN amount ELSE -amount

\* the funds check applied to withdrawals only
InsufficientFundsWithdrawalOnly(ttype, newBalance, amount) ==
    ttype = WITHDRAWAL /\ newBalance < amount

\* the funds check with the amount added back instead of compared
InsufficientFundsSignSlip(ttype, newBalance, amount) ==
    ttype # DEPOSIT /\ newBalance + amount < 0

\* investor.service.ts:507  the check runs on the document returned by the
\* update ({ new: true }), that is on the balance AFTER the adjustment
InsufficientFunds(ttype, newBalance, amount) ==
    ttype # DEPOSIT /\ newBalance < amount

\* the snapshot computed as for a deposit, whatever the type
BalanceBeforeUnsigned(ttype, newBalance, amount) == newBalance - amount

\* investor.service.ts:520
BalanceBefore(ttype, newBalance, amount) == newBalance - Signed(ttype, amount)

\* investor.service.ts:512-527 (peer: the other wallet of a transfer, kept in metadata)
TransactionData(ttype, newBalance, amount, peer) ==
    [type |-> ttype, amount |-> amount,
     balanceBefore |-> BalanceBefore(ttype, newBalance, amount),
     balanceAfter |-> newBalance, peer |-> peer]

\* investor.service.ts:480 / 592
ValidAmount(amount) == amount > 0

\* a transfer that compares nothing of the two assets
NoAssetCheck(a, b) == FALSE

\* investor.service.ts:614-615
AssetMismatch(a, b) == a.code # b.code \/ a.kind # b.kind

\* ---- the store: transactions of a ClientSession -------------------------
\* what a session reads of wallet w: its own uncommitted write, else its snapshot
\* (a write is refused below unless the snapshot of w is still the committed one)
View(p, w) ==
    IF w \in sess[p].held THEN sess[p].priv[w]
    ELSE [balance |-> db[w].balance, transactions |-> db[w].transactions]

\* writes that never conflict: each request overwrites what it read
NoWriteConflict(p, w) == FALSE

\* a write inside a transaction fails with WriteConflict when another open
\* transaction has written the document, or when the document was committed
\* by another transaction after this one took its snapshot
WriteConflict(p, w) ==
    \/ w \in sess[p].stale
    \/ \E q \in Procs \ {p} : w \in sess[q].held

\* the session after it wrote document d for wallet w (first operation takes the snapshot)
SessionWrite(p, w, d) ==
    [sess[p] EXCEPT !.started = TRUE, !.held = @ \cup {w}, !.priv[w] = d]

\* a commit that writes the list of a wallet as its newest record alone
CommitNewestRecordOnly(p) ==
    [w \in WalletIds |->
        IF w \in sess[p].held
        THEN [db[w] EXCEPT
                !.balance = sess[p].priv[w].balance,
                !.transactions =
                    IF sess[p].priv[w].transactions = <<>> THEN <<>>
                    ELSE <<sess[p].priv[w].transactions[Len(sess[p].priv[w].transactions)]>>]
        ELSE db[w]]

\* session.commitTransaction(): the writes of p become the committed documents
CommittedStore(p) ==
    [w \in WalletIds |->
        IF w \in sess[p].held
        THEN [db[w] EXCEPT !.balance = sess[p].priv[w].balance,
                           !.transactions = sess[p].priv[w].transactions]
        ELSE db[w]]

\* an abort that leaves the writes of p in the store
AbortKeepsWrites(p) == CommittedStore(p)

\* an abort that leaves the balance adjustments of p in the store (update outside the session)
AbortKeepsBalance(p) ==
    [w \in WalletIds |->
        IF w \in sess[p].held
        THEN [db[w] EXCEPT !.balance = sess[p].priv[w].balance]
        ELSE db[w]]

\* session.abortTransaction(): the writes of p are discarded
AbortedStore(p) == db

\* every other open transaction that has its snapshot sees p's documents as stale
SessionsAfterEnd(p, written) ==
    [q \in Procs |->
        IF q = p THEN NoSession
        ELSE IF sess[q].started THEN [sess[q] EXCEPT !.stale = @ \cup written]
        ELSE sess[q]]

\* ---- requests ------------------------------------------------------------
Idle(p) == proc[p].pc = "idle"
InFlight == Cardinality({q \in Procs : proc[q].pc # "idle"})
CanStart(p) == Idle(p) /\ nops + InFlight < MaxOps

\* a call has returned or thrown: only its outcome is kept
Finished(p, result) ==
    [IdleProc EXCEPT !.result = result]

UnchangedHistory == UNCHANGED <<commitLog, call, extra>>

\* processTransaction 496-527 on wallet w, by request record c: BaseService.update
\* (findByIdAndUpdate with $inc, in the session), the not-found and the
\* insufficient-funds checks, transactionData.  Gives <<request, session>>.
UpdateStep(p, c, w) ==
    LET newBalance == View(p, w).balance + Signed(c.ttype, c.amount)
        peer == IF c.op = "tf" THEN (IF c.leg = 1 THEN c.r ELSE c.s) ELSE 0
    IN IF ~db[w].exists
       THEN <<[c EXCEPT !.pc = "abort", !.err = "NotFound"],
              [sess[p] EXCEPT !.active = TRUE, !.started = TRUE]>>
       ELSE IF WriteConflict(p, w)
       THEN <<[c EXCEPT !.pc = "abort", !.err = "WriteConflict"],
              [sess[p] EXCEPT !.active = TRUE, !.started = TRUE]>>
       ELSE <<IF InsufficientFunds(c.ttype, newBalance, c.amount)
              THEN [c EXCEPT !.pc = "abort", !.err = "InsufficientFunds",
                             !.seen = View(p, w).balance]
              ELSE [c EXCEPT !.pc = "save", !.seen = View(p, w).balance,
                             !.txn = TransactionData(c.ttype, newBalance, c.amount, peer)],
              [SessionWrite(p, w, [balance |-> newBalance,
                                   transactions |-> View(p, w).transactions])
                 EXCEPT !.active = TRUE]>>

\* processTransaction(walletId, userId, amount, type) called without a session:
\* validation (472-482), startSession and startTransaction (487-491), update (496-527)
ProcessTransaction(p, w, amount, ttype) ==
    /\ CanStart(p)
    /\ LET c == [IdleProc EXCEPT !.op = "pt", !.w = w, !.amount = amount,
                                 !.ttype = ttype, !.own = TRUE, !.tries = 1]
       IN IF ~ValidAmount(amount)
          THEN /\ proc' = [proc EXCEPT ![p] = Finished(p, "InvalidInput")]
               /\ sess' = sess
          ELSE /\ proc' = [proc EXCEPT ![p] = UpdateStep(p, c, w)[1]]
               /\ sess' = [sess EXCEPT ![p] = UpdateStep(p, c, w)[2]]
    /\ UNCHANGED <<db, schemaVersion, nops>>
    /\ UnchangedHistory

\* transferFunds(sender, recipient, amount): checks 588-594, session 596-597,
\* both wallets read outside the session and checked 601-617
TransferFunds(p, s, r, amount) ==
    /\ CanStart(p)
    /\ LET c == [IdleProc EXCEPT !.op = "tf", !.s = s, !.r = r, !.amount = amount,
                                 !.ttype = TRANSFER, !.tries = 1]
       IN IF s = r \/ amount <= 0
          THEN /\ proc' = [proc EXCEPT ![p] = Finished(p, "InvalidInput")]
               /\ sess' = sess
          ELSE /\ proc' = [proc EXCEPT ![p] =
                    IF ~db[s].exists \/ ~db[r].exists
                    THEN [c EXCEPT !.pc = "abort", !.err = "NotFound"]
                    ELSE IF AssetMismatch(db[s], db[r])
                    THEN [c EXCEPT !.pc = "abort", !.err = "AssetMismatch"]
                    ELSE [c EXCEPT !.pc = "update", !.leg = 1, !.w = s]]
               /\ sess' = [sess EXCEPT ![p] = [NoSession EXCEPT !.active = TRUE]]
    /\ UNCHANGED <<db, schemaVersion, nops>>
    /\ UnchangedHistory

\* a leg of transferFunds: processTransaction(..., session) 624-637 and 640-653
Update(p) ==
    /\ proc[p].pc = "update"
    /\ proc' = [proc EXCEPT ![p] = UpdateStep(p, proc[p], proc[p].w)[1]]
    /\ sess' = [sess EXCEPT ![p] = UpdateStep(p, proc[p], proc[p].w)[2]]
    /\ UNCHANGED <<db, schemaVersion, nops>>
    /\ UnchangedHistory

\* processTransaction 530-531: push the record and save in the session; then
\* commit when the call owns the session (533), else return to transferFunds,
\* which runs the recipient leg (640) or commits (655)
Save(p) ==
    /\ proc[p].pc = "save"
    /\ LET w == proc[p].w
       IN sess' = [sess EXCEPT ![p] =
            SessionWrite(p, w, [balance |-> View(p, w).balance,
                                transactions |-> Append(View(p, w).transactions,
                                                        proc[p].txn)])]
    /\ proc' = [proc EXCEPT ![p] =
            IF proc[p].op = "tf" /\ proc[p].leg = 1
            THEN [@ EXCEPT !.pc = "update", !.leg = 2, !.w = proc[p].r,
                           !.txn = NoTxn, !.seen = 0]
            ELSE [@ EXCEPT !.pc = "commit"]]
    /\ UNCHANGED <<db, schemaVersion, nops>>
    /\ UnchangedHistory

\* the wallets a committing call has recorded a transaction on
Recorded(p) == sess[p].held

\* commitTransaction (534 / 655) and the return of the call
Commit(p) ==
    /\ proc[p].pc = "commit"
    /\ proc[p].op \in {"pt", "tf"}
    /\ db' = CommittedStore(p)
    /\ sess' = SessionsAfterEnd(p, sess[p].held)
    /\ proc' = [proc EXCEPT ![p] = [Finished(p, "ok") EXCEPT !.tries = proc[p].tries]]
    /\ commitLog' = [w \in WalletIds |->
            IF w \in Recorded(p)
            THEN Append(commitLog[w], <<proc[p].ttype, proc[p].amount>>)
            ELSE commitLog[w]]
    /\ nops' = nops + 1
    /\ UNCHANGED <<schemaVersion, call, extra>>

\* the catch blocks (540-546, 657-662): abortTransaction, then the error is rethrown
Abort(p) ==
    /\ proc[p].pc = "abort"
    /\ db' = AbortedStore(p)
    /\ sess' = SessionsAfterEnd(p, {})
    /\ proc' = [proc EXCEPT ![p] = [Finished(p, proc[p].err) EXCEPT !.tries = proc[p].tries]]
    /\ UNCHANGED <<schemaVersion, nops>>
    /\ UnchangedHistory

\* a store operation of the call fails (network error, injected fault; at
\* commitTransaction, a transient conflict of the transaction): the await throws
\* and control reaches the catch block
Fault(p) ==
    /\ proc[p].pc \in {"update", "save", "commit", "create"}
    /\ proc' = [proc EXCEPT ![p] =
            [@ EXCEPT !.pc = "abort",
                      !.err = IF proc[p].pc = "commit" /\ proc[p].op \in {"pt", "tf"}
                              THEN "TransientStoreConflict" ELSE "Fault"]]
    /\ UNCHANGED <<db, schemaVersion, sess, nops>>
    /\ UnchangedHistory

\* ---- the HTTP boundary ----------------------------------------------------
\* errorHandler (error.middleware.ts:9): err.statusCode || 500.  NotFoundError carries
\* 404; the invalid-input, asset-mismatch and insufficient-funds errors of the service
\* are all BadRequestError (investor.service.ts:481, 508, 615), which carries 400
ErrorStatus(kind) ==
    IF kind = "NotFound" THEN 404
    ELSE IF kind \in {"InvalidInput", "AssetMismatch", "InsufficientFunds"} THEN 400
    ELSE 500

\* the status a wallet handler answers with when its ledger call ends with `kind`:
\* depositFunds and withdrawFunds catch every error of their try block and throw
\* BadRequestError in its place (part_013:178-180, 224-226); transferFunds rethrows
\* the error it caught (275-277)
HandlerStatus(op, kind) ==
    IF kind = "ok" THEN 201
    ELSE IF op = "pt" THEN ErrorStatus("InvalidInput")
    ELSE ErrorStatus(kind)

\* ---- the ledger specification ---------------------------------------------
\* the record a committed deposit of amount a leaves on a wallet whose balance was b
DepositRecord(b, a) == TransactionData(DEPOSIT, b + Signed(DEPOSIT, a), a, 0)

\* a wallet as getOrCreateWallet leaves it (zero balance, no transactions), or
\* after one committed deposit of `funded` when funded > 0
Funded(wallet, funded) ==
    IF funded = 0 THEN wallet
    ELSE [wallet EXCEPT !.balance = funded,
                        !.transactions = <<DepositRecord(0, funded)>>]

\* wallets 1 and 2 hold the same asset, wallet 3 another one; further ids are unused
LedgerWallet(w) ==
    IF w = 1 THEN NewWallet("user", 1, "USD", "fiat", "fiat")
    ELSE IF w = 2 THEN NewWallet("user", 2, "USD", "fiat", "fiat")
    ELSE IF w = 3 THEN NewWallet("user", 1, "BTC", "crypto", "crypto")
    ELSE NoWallet

\* the types the deposit and withdrawal handlers pass to processTransaction
RequestTypes == {DEPOSIT, WITHDRAWAL}

\* the ledger operations never insert, so the index version plays no part here
Init ==
    /\ \E f \in [{1, 2} -> {0, SeedBalance}] :
         /\ db = [w \in WalletIds |->
                    IF w \in {1, 2} THEN Funded(LedgerWallet(w), f[w]) ELSE LedgerWallet(w)]
         /\ commitLog = [w \in WalletIds |->
                    IF w \in {1, 2} /\ f[w] > 0 THEN <<<<DEPOSIT, f[w]>>>> ELSE <<>>]
    /\ schemaVersion = 1
    /\ proc = [p \in Procs |-> IdleProc]
    /\ sess = [p \in Procs |-> NoSession]
    /\ nops = 0
    /\ now = 0
    /\ OtherServicesIdle
    /\ call = NoCall

Next ==
    \/ \E p \in Procs, w \in WalletIds, a \in Amounts, t \in RequestTypes :
            ProcessTransaction(p, w, a, t)
    \/ \E p \in Procs, s \in WalletIds, r \in WalletIds, a \in Amounts :
            TransferFunds(p, s, r, a)
    \/ \E p \in Procs : Update(p)
    \/ \E p \in Procs : Save(p)
    \/ \E p \in Procs : Commit(p)
    \/ \E p \in Procs : Abort(p)
    \/ \E p \in Procs : Fault(p)

Spec == Init /\ [][Next]_vars

\* ---- wallet creation -------------------------------------------------------
\* the unique compound index of the wallets collection:
\* version 1 (wallet.model.ts:398)  { ownerType, ownerId, type, asset.code }
\* version 2 (wallet.model.ts:976)  { ownerId, ownerType, asset.code }
IndexKey(version, d) ==
    IF version = 1 THEN <<d.ownerType, d.ownerId, d.wtype, d.code>>
    ELSE <<d.ownerId, d.ownerType, d.code>>

\* insert of document d is refused with a duplicate-key error (E11000)
DuplicateKey(d) ==
    \E w \in WalletIds :
        db[w].exists /\ IndexKey(schemaVersion, db[w]) = IndexKey(schemaVersion, d)

\* the composite identity the service looks wallets up by (197-202)
QueryKey(d) == <<d.ownerType, d.ownerId, d.code, d.kind>>

\* this.findOne(query) of getOrCreateWallet (220): the first matching document, 0 when none
FindOne(key) ==
    LET hits == {w \in WalletIds : db[w].exists /\ QueryKey(db[w]) = key}
    IN IF hits = {} THEN 0 ELSE CHOOSE w \in hits : \A v \in hits : w <= v

FreeIds == {w \in WalletIds : ~db[w].exists}
NextId == CHOOSE w \in FreeIds : \A v \in FreeIds : w <= v

\* Model.create(d): the insert, outside any session.  Gives the new collection.
Inserted(d) == [db EXCEPT ![NextId] = d]

\* getOrCreateWallet 184-220: validation, session, findOne
GetOrCreateWallet(p, ownerType, ownerId, code, kind, wtype) ==
    /\ CanStart(p)
    /\ LET d == NewWallet(ownerType, ownerId, code, kind, wtype)
           c == [IdleProc EXCEPT !.op = "goc", !.key = <<ownerType, ownerId, code, kind, wtype>>]
       IN IF ownerType \notin WalletOwnerType \/ code = "" \/ kind = ""
          THEN /\ proc' = [proc EXCEPT ![p] = Finished(p, "InvalidInput")]
               /\ sess' = sess
          ELSE /\ proc' = [proc EXCEPT ![p] =
                    IF FindOne(QueryKey(d)) # 0
                    THEN [c EXCEPT !.pc = "commit", !.ret = FindOne(QueryKey(d))]
                    ELSE [c EXCEPT !.pc = "create"]]
               /\ sess' = [sess EXCEPT ![p] = [NoSession EXCEPT !.active = TRUE]]
    /\ UNCHANGED <<db, schemaVersion, nops>>
    /\ UnchangedHistory

\* getOrCreateWallet 222-227: this.create(newWallet)
Create(p) ==
    /\ proc[p].pc = "create"
    /\ LET k == proc[p].key
           d == NewWallet(k[1], k[2], k[3], k[4], k[5])
       IN IF DuplicateKey(d)
          THEN /\ proc' = [proc EXCEPT ![p] = [@ EXCEPT !.pc = "abort", !.err = "DuplicateKey"]]
               /\ db' = db
          ELSE /\ FreeIds # {}
               /\ proc' = [proc EXCEPT ![p] = [@ EXCEPT !.pc = "commit", !.ret = NextId]]
               /\ db' = Inserted(d)
    /\ UNCHANGED <<schemaVersion, sess, nops>>
    /\ UnchangedHistory

\* getOrCreateWallet 228-235: commitTransaction, return wallet, endSession
ReturnWallet(p) ==
    /\ proc[p].pc = "commit"
    /\ proc[p].op = "goc"
    /\ proc' = [proc EXCEPT ![p] = Finished(p, "ok")]
    /\ sess' = SessionsAfterEnd(p, {})
    /\ UNCHANGED <<db, schemaVersion, nops>>
    /\ UnchangedHistory

\* createWallet 241-261: one insert
CreateWallet(p, ownerType, ownerId, code, kind, wtype) ==
    /\ CanStart(p)
    /\ LET d == NewWallet(ownerType, ownerId, code, kind, wtype)
       IN IF DuplicateKey(d)
          THEN /\ proc' = [proc EXCEPT ![p] = Finished(p, "DuplicateKey")]
               /\ db' = db
          ELSE /\ FreeIds # {}
               /\ proc' = [proc EXCEPT ![p] = Finished(p, "ok")]
               /\ db' = Inserted(d)
    /\ UNCHANGED <<schemaVersion, sess, nops>>
    /\ UnchangedHistory

\* owners and assets the creation requests draw from
CreateOwnerTypes == {"user", "bogus"}
CreateOwnerIds == {1}
CreateCodes == {"USD"}
CreateKinds == {"fiat", "crypto"}

InitCreate ==
    /\ db = [w \in WalletIds |-> NoWallet]
    /\ schemaVersion \in {1, 2}
    /\ proc = [p \in Procs |-> IdleProc]
    /\ sess = [p \in Procs |-> NoSession]
    /\ commitLog = [w \in WalletIds |-> <<>>]
    /\ nops = 0
    /\ now = 0
    /\ OtherServicesIdle
    /\ call = NoCall

NextCreate ==
    \/ \E p \in Procs, ot \in CreateOwnerTypes, oi \in CreateOwnerIds, c \in CreateCodes,
          k \in CreateKinds, t \in WalletType : GetOrCreateWallet(p, ot, oi, c, k, t)
    \/ \E p \in Procs, oi \in CreateOwnerIds, c \in CreateCodes,
          k \in CreateKinds, t \in WalletType : CreateWallet(p, "user", oi, c, k, t)
    \/ \E p \in Procs : Create(p)
    \/ \E p \in Procs : ReturnWallet(p)
    \/ \E p \in Procs : proc[p].op = "goc" /\ Abort(p)
    \/ \E p \in Procs : proc[p].op = "goc" /\ Fault(p)

SpecCreate == InitCreate /\ [][NextCreate]_vars

\* ---- the getWallet handler ---------------------------------------------------
\* walletService.findOne({ ownerId: userId, isActive: true }) (part_013:29-32):
\* the first active wallet of the owner, 0 when none
FindActiveByOwner(userId) ==
    LET hits == {w \in WalletIds :
                    db[w].exists /\ db[w].ownerId = userId /\ db[w].isActive}
    IN IF hits = {} THEN 0 ELSE CHOOSE w \in hits : \A v \in hits : w <= v

\* getWallet (part_013:24-34): the lookup of the owner's active wallet; a hit is
\* answered, a miss goes on to getOrCreateWallet for a USD fiat wallet
GetWallet(p, userId) ==
    /\ CanStart(p)
    /\ LET c == [IdleProc EXCEPT !.op = "gw",
                                 !.key = <<"user", userId, "USD", "fiat", "fiat">>]
       IN proc' = [proc EXCEPT ![p] =
                    IF FindActiveByOwner(userId) # 0
                    THEN [c EXCEPT !.pc = "respond", !.ret = FindActiveByOwner(userId)]
                    ELSE [c EXCEPT !.pc = "lookup"]]
    /\ UNCHANGED <<db, schemaVersion, sess, nops>>
    /\ UnchangedHistory

\* getOrCreateWallet as the handler calls it (part_013:36-48): session, and findOne
\* on (ownerType, ownerId, asset.code, asset.type) alone (investor.service.ts:193-220)
Lookup(p) ==
    /\ proc[p].pc = "lookup"
    /\ LET k == proc[p].key
           found == FindOne(<<k[1], k[2], k[3], k[4]>>)
       IN proc' = [proc EXCEPT ![p] =
                    IF found # 0 THEN [@ EXCEPT !.pc = "commit", !.ret = found]
                    ELSE [@ EXCEPT !.pc = "create"]]
    /\ sess' = [sess EXCEPT ![p] = [NoSession EXCEPT !.active = TRUE]]
    /\ UNCHANGED <<db, schemaVersion, nops>>
    /\ UnchangedHistory

\* getOrCreateWallet 228-235 under the handler: commit, and the wallet goes back to it
WalletReturned(p) ==
    /\ proc[p].pc = "commit"
    /\ proc[p].op = "gw"
    /\ proc' = [proc EXCEPT ![p] = [@ EXCEPT !.pc = "respond"]]
    /\ sess' = SessionsAfterEnd(p, {})
    /\ UNCHANGED <<db, schemaVersion, nops>>
    /\ UnchangedHistory

\* res.json({ status: 'success', data: { wallet } })  (part_013:54-59)
Respond(p) ==
    /\ proc[p].pc = "respond"
    /\ proc' = [proc EXCEPT ![p] = Finished(p, "ok")]
    /\ UNCHANGED <<db, schemaVersion, sess, nops>>
    /\ UnchangedHistory

\* a wallet of user 1 as it can stand in the collection: absent, active, or inactive
\* (isActive is a field any update of the document can clear; nothing deletes wallets)
StoredWallets(wallet) ==
    {NoWallet, wallet, [wallet EXCEPT !.isActive = FALSE]}

\* the owners that call the handler
LookupOwners == {1, 2}

\* user 1 may hold a USD fiat wallet (id 1) and a BTC crypto wallet (id 3), user 2 none
InitLookup ==
    /\ \E usd \in StoredWallets(LedgerWallet(1)), btc \in StoredWallets(LedgerWallet(3)) :
          db = [w \in WalletIds |-> IF w = 1 THEN usd ELSE IF w = 3 THEN btc ELSE NoWallet]
    /\ schemaVersion \in {1, 2}
    /\ proc = [p \in Procs |-> IdleProc]
    /\ sess = [p \in Procs |-> NoSession]
    /\ commitLog = [w \in WalletIds |-> <<>>]
    /\ nops = 0
    /\ now = 0
    /\ OtherServicesIdle
    /\ call = NoCall

NextLookup ==
    \/ \E p \in Procs, userId \in LookupOwners : GetWallet(p, userId)
    \/ \E p \in Procs : Lookup(p)
    \/ \E p \in Procs : proc[p].op = "gw" /\ Create(p)
    \/ \E p \in Procs : WalletReturned(p)
    \/ \E p \in Procs : Respond(p)
    \/ \E p \in Procs : proc[p].op = "gw" /\ Abort(p)

SpecLookup == InitLookup /\ [][NextLookup]_vars

\* ---- wallet addresses --------------------------------------------------------
\* address strings are sequences of characters
RECURSIVE TrimStart(_)
TrimStart(str) == IF str # <<>> /\ Head(str) = " " THEN TrimStart(Tail(str)) ELSE str

RECURSIVE TrimEnd(_)
TrimEnd(str) ==
    IF str # <<>> /\ str[Len(str)] = " " THEN TrimEnd(SubSeq(str, 1, Len(str) - 1)) ELSE str

\* the `trim: true` setter of walletAddressSchema.address and of defaultAddress
\* (wallet.model.ts:262-267, 310-314), applied when the value is cast into the document
Trim(str) == TrimEnd(TrimStart(str))

\* wallet.addresses.some(addr => addr.address === address)  (investor.service.ts:277)
AddressExists(addresses, address) ==
    \E i \in 1..Len(addresses) : addresses[i].address = address

\* the entry addAddress builds (282-288), as cast by the push (290)
NewAddress(addresses, address) ==
    [address |-> Trim(address), isDefault |-> Len(addresses) = 0]

\* wallet.addresses.find(addr => addr.address === address): the first match (313)
FindAddress(addresses, address) ==
    IF AddressExists(addresses, address)
    THEN CHOOSE i \in 1..Len(addresses) :
            /\ addresses[i].address = address
            /\ \A j \in 1..(i - 1) : addresses[j].address # address
    ELSE 0

\* the default moved to the target with the flags of the other entries kept
MarkDefaultKeepingOthers(addresses, address) ==
    [i \in 1..Len(addresses) |->
        IF i = FindAddress(addresses, address)
        THEN [addresses[i] EXCEPT !.isDefault = TRUE] ELSE addresses[i]]

\* setDefaultAddress 319-325: every isDefault cleared, then set on the entry found
MarkDefault(addresses, address) ==
    [i \in 1..Len(addresses) |->
        [addresses[i] EXCEPT !.isDefault = (i = FindAddress(addresses, address))]]

\* addAddress(walletId, address): findById, the duplicate check and the new entry
\* (271-294); the document is then saved in a second store operation
AddAddress(p, w, address) ==
    /\ CanStart(p)
    /\ Len(db[w].addresses)
          + Cardinality({q \in Procs : proc[q].pc = "saveAddress"}) < MaxAddresses
    /\ proc' = [proc EXCEPT ![p] =
            IF ~db[w].exists THEN Finished(p, "NotFound")
            ELSE IF AddressExists(db[w].addresses, address) THEN Finished(p, "Conflict")
            ELSE [IdleProc EXCEPT !.pc = "saveAddress", !.op = "add", !.w = w,
                                  !.address = address,
                                  !.doc = <<NewAddress(db[w].addresses, address)>>]]
    /\ UNCHANGED <<db, schemaVersion, sess, nops>>
    /\ UnchangedHistory

\* wallet.save() of addAddress (297): the pushed entry goes out as a $push and the
\* default address as a $set; the version is incremented but not compared
SaveAddress(p) ==
    /\ proc[p].pc = "saveAddress"
    /\ LET w == proc[p].w
           entry == proc[p].doc[1]
       IN db' = [db EXCEPT ![w] =
                    [@ EXCEPT !.addresses = Append(@, entry),
                              !.defaultAddress = IF entry.isDefault
                                                 THEN Trim(proc[p].address) ELSE @,
                              !.version = @ + 1]]
    /\ proc' = [proc EXCEPT ![p] = Finished(p, "ok")]
    /\ nops' = nops + 1
    /\ UNCHANGED <<schemaVersion, sess>>
    /\ UnchangedHistory

\* setDefaultAddress(walletId, address): findById, find, the flags rewritten on the
\* loaded document (308-325)
SetDefaultAddress(p, w, address) ==
    /\ CanStart(p)
    /\ proc' = [proc EXCEPT ![p] =
            IF ~db[w].exists \/ FindAddress(db[w].addresses, address) = 0
            THEN Finished(p, "NotFound")
            ELSE [IdleProc EXCEPT !.pc = "saveDefault", !.op = "setDefault", !.w = w,
                                  !.address = address,
                                  !.doc = MarkDefault(db[w].addresses, address),
                                  !.ver = db[w].version]]
    /\ UNCHANGED <<db, schemaVersion, sess, nops>>
    /\ UnchangedHistory

\* wallet.save() of setDefaultAddress (327): markModified('addresses') sends the whole
\* array as a $set, which the version key guards: the save fails with a VersionError
\* when the document was saved by another request since it was loaded
SaveDefault(p) ==
    /\ proc[p].pc = "saveDefault"
    /\ LET w == proc[p].w
       IN IF db[w].version # proc[p].ver
          THEN /\ proc' = [proc EXCEPT ![p] = Finished(p, "VersionError")]
               /\ UNCHANGED <<db, nops>>
          ELSE /\ db' = [db EXCEPT ![w] =
                        [@ EXCEPT !.addresses = proc[p].doc,
                                  !.defaultAddress = Trim(proc[p].address),
                                  !.version = @ + 1]]
               /\ proc' = [proc EXCEPT ![p] = Finished(p, "ok")]
               /\ nops' = nops + 1
    /\ UNCHANGED <<schemaVersion, sess>>
    /\ UnchangedHistory

\* the address strings requests pass: two addresses, and the first with a leading blank
AddressInputs == {<<"A">>, <<"B">>, <<" ", "A">>}

\* address lists as a run of addAddress and setDefaultAddress calls, one after the
\* other, leaves them
SeedAddresses ==
    {<<>>,
     <<[address |-> <<"A">>, isDefault |-> TRUE]>>,
     <<[address |-> <<"A">>, isDefault |-> TRUE], [address |-> <<"B">>, isDefault |-> FALSE]>>}

\* wallet 1 exists, with some addresses; the other ids are unused
InitAddress ==
    /\ \E seed \in SeedAddresses :
          db = [w \in WalletIds |->
                  IF w = 1
                  THEN [LedgerWallet(1) EXCEPT
                          !.addresses = seed,
                          !.defaultAddress = IF seed = <<>> THEN <<>> ELSE seed[1].address,
                          !.version = Len(seed)]
                  ELSE NoWallet]
    /\ schemaVersion = 1
    /\ proc = [p \in Procs |-> IdleProc]
    /\ sess = [p \in Procs |-> NoSession]
    /\ commitLog = [w \in WalletIds |-> <<>>]
    /\ nops = 0
    /\ now = 0
    /\ OtherServicesIdle
    /\ call = NoCall

NextAddress ==
    \/ \E p \in Procs, w \in WalletIds, a \in AddressInputs : AddAddress(p, w, a)
    \/ \E p \in Procs : SaveAddress(p)
    \/ \E p \in Procs, w \in WalletIds, a \in AddressInputs : SetDefaultAddress(p, w, a)
    \/ \E p \in Procs : SaveDefault(p)

SpecAddress == InitAddress /\ [][NextAddress]_vars

\* ---- the arguments of processTransaction ------------------------------------
\* JavaScript values an `amount` argument can hold at run time: finite numbers,
\* NaN, the two infinities, and a value that is not a number
Finite(v) == [t |-> "number", c |-> "finite", v |-> v]
NaN == [t |-> "number", c |-> "nan", v |-> 0]
PosInfinity == [t |-> "number", c |-> "+inf", v |-> 0]
NegInfinity == [t |-> "number", c |-> "-inf", v |-> 0]
NotANumber == [t |-> "string", c |-> "", v |-> 0]
JsAmounts ==
    {Finite(v) : v \in -1..MaxAmount} \cup {NaN, PosInfinity, NegInfinity, NotANumber}

\* id strings: a 24-digit hexadecimal string, and a string that is no ObjectId
IdStrings == {"5f8d0d55b54764421b7156c3", "not-an-id"}

\* Types.ObjectId.isValid (investor.service.ts:472, 476)
IsValidObjectId(id) == id = "5f8d0d55b54764421b7156c3"

\* typeof amount === 'number' (480): true of NaN and of the infinities
TypeofNumber(x) == x.t = "number"

\* amount <= 0 (480) on a number: every comparison with NaN is false
LessOrEqualZero(x) ==
    IF x.c = "nan" THEN FALSE
    ELSE IF x.c = "+inf" THEN FALSE
    ELSE IF x.c = "-inf" THEN TRUE
    ELSE ~ValidAmount(x.v)

\* the three checks at the head of processTransaction (472-482)
InputRejected(walletId, userId, amount) ==
    \/ ~IsValidObjectId(walletId)
    \/ ~IsValidObjectId(userId)
    \/ ~TypeofNumber(amount) \/ LessOrEqualZero(amount)

\* processTransaction up to its first store operation: the checks throw
\* BadRequestError, else the call goes on to startSession (487)
ValidateTransaction ==
    /\ call.fn = "processTransaction" /\ call.pc = "called"
    /\ call' = IF InputRejected(call.walletId, call.userId, call.amount)
               THEN [call EXCEPT !.pc = "thrown", !.result = "InvalidInput"]
               ELSE [call EXCEPT !.pc = "startSession"]
    /\ UNCHANGED <<db, schemaVersion, proc, sess, commitLog, nops, extra>>

InitInput ==
    /\ db = [w \in WalletIds |-> LedgerWallet(w)]
    /\ schemaVersion = 1
    /\ proc = [p \in Procs |-> IdleProc]
    /\ sess = [p \in Procs |-> NoSession]
    /\ commitLog = [w \in WalletIds |-> <<>>]
    /\ nops = 0
    /\ now = 0
    /\ OtherServicesIdle
    /\ \E walletId \in IdStrings, userId \in IdStrings, amount \in JsAmounts,
          ttype \in TransactionType :
            call = [fn |-> "processTransaction", pc |-> "called", walletId |-> walletId,
                    userId |-> userId, amount |-> amount, ttype |-> ttype,
                    result |-> "none"]

NextInput == ValidateTransaction

SpecInput == InitInput /\ [][NextInput]_vars

\* ---- the transaction history page -------------------------------------------
\* investor.service.ts:349  the cap on the items of a page
MaxPageSize == 100

Max(a, b) == IF a >= b THEN a ELSE b
Min(a, b) == IF a <= b THEN a ELSE b

\* investor.service.ts:348  Math.max(1, page)
PageNum(page) == Max(1, page)

\* investor.service.ts:349  Math.min(Math.max(1, limit), 100)
LimitNum(limit) == Min(Max(1, limit), MaxPageSize)

\* what a call gives back: a page, or the error it throws
Thrown(error) ==
    [kind |-> "error", error |-> error, transactions |-> <<>>, total |-> 0, totalPages |-> 0]

\* getWalletWithTransactions(walletId, { type, page, limit }): the clamps (348-349),
\* findById and the NotFoundError of a missing wallet (352-356), the pipeline built
\* (359-418), and the call `this.constructor.aggregate(pipeline)` (421).
\* this.constructor is the class WalletService, which has no static `aggregate`, and
\* neither has BaseService: the call throws TypeError and nothing after it runs
GetWalletWithTransactions ==
    /\ call.fn = "getWalletWithTransactions" /\ call.pc = "called"
    /\ call' = IF ~db[call.w].exists
               THEN [call EXCEPT !.pc = "thrown", !.pageNum = PageNum(call.page),
                                 !.limitNum = LimitNum(call.limit),
                                 !.result = Thrown("NotFound")]
               ELSE [call EXCEPT !.pc = "thrown", !.pageNum = PageNum(call.page),
                                 !.limitNum = LimitNum(call.limit),
                                 !.result = Thrown("TypeError")]
    /\ UNCHANGED <<db, schemaVersion, proc, sess, commitLog, nops, extra>>

\* page and limit arguments on both sides of each clamp
PageInputs == -1..MaxPage
LimitInputs == {0, 1, 2, MaxPageSize, MaxPageSize + 1}

\* the type filter of a request; "" when the request carries none
TypeFilters == {"", DEPOSIT, WITHDRAWAL}

\* wallet 1 with a deposit and a withdrawal recorded, wallet 2 with or without a
\* deposit, the other ids unused
InitPage ==
    /\ \E funded \in {0, SeedBalance} :
          db = [w \in WalletIds |->
                  IF w = 1
                  THEN [LedgerWallet(1) EXCEPT
                          !.balance = 0,
                          !.transactions =
                              <<DepositRecord(0, SeedBalance),
                                TransactionData(WITHDRAWAL, 0, SeedBalance, 0)>>]
                  ELSE IF w = 2 THEN Funded(LedgerWallet(2), funded)
                  ELSE NoWallet]
    /\ schemaVersion = 1
    /\ proc = [p \in Procs |-> IdleProc]
    /\ sess = [p \in Procs |-> NoSession]
    /\ commitLog = [w \in WalletIds |-> <<>>]
    /\ nops = 0
    /\ now = 0
    /\ OtherServicesIdle
    /\ \E w \in WalletIds, page \in PageInputs, limit \in LimitInputs, type \in TypeFilters :
            call = [fn |-> "getWalletWithTransactions", pc |-> "called", w |-> w,
                    page |-> page, limit |-> limit, type |-> type,
                    pageNum |-> 0, limitNum |-> 0, result |-> Thrown("")]

NextPage == GetWalletWithTransactions

SpecPage == InitPage /\ [][NextPage]_vars

\* ---- the model static Wallet.processTransaction and the controller transfer ----
\* wallet.model.ts:499-501  the types the static adds to the balance
StaticCredit(ttype) == ttype \in {DEPOSIT, "refund", "bonus"}

\* wallet.model.ts:504-506  the funds check, on the balance before the adjustment
StaticInsufficient(ttype, balance, amount) ==
    ~StaticCredit(ttype) /\ balance < amount

\* wallet.model.ts:498-508  newBalance
StaticBalance(ttype, balance, amount) ==
    IF StaticCredit(ttype) THEN balance + amount ELSE balance - amount

\* wallet.model.ts:511-525  the record the static pushes
StaticRecord(ttype, amount, newBalance) ==
    [type |-> ttype, amount |-> amount, balance |-> newBalance]

\* findOneAndUpdate({ user, isActive: true }, { $setOnInsert: ... }, { upsert: true })
\* (wallet.model.ts:489-493): the collection once the user's active wallet is there
Upserted(userId) ==
    IF FindActiveByOwner(userId) # 0 \/ FreeIds = {} THEN db
    ELSE Inserted(NewWallet("user", userId, "USD", "fiat", "fiat"))

\* the id of the wallet the upsert returns
UpsertedId(userId) ==
    IF FindActiveByOwner(userId) # 0 THEN FindActiveByOwner(userId) ELSE NextId

\* Wallet.processTransaction(userId, amount, type) run to its own commit
\* (wallet.model.ts:484-533): the collection it leaves
StaticCommitted(userId, amount, ttype) ==
    LET w == UpsertedId(userId)
        store == Upserted(userId)
        newBalance == StaticBalance(ttype, store[w].balance, amount)
    IN [store EXCEPT ![w] =
            [@ EXCEPT !.balance = newBalance,
                      !.transactions = Append(@, StaticRecord(ttype, amount, newBalance))]]

\* transferFunds of wallet.controller.ts (198-222): the checks, then the handler's
\* own session and transaction, which the two calls below are never given
ControllerTransfer(p, sender, recipient, amount) ==
    /\ CanStart(p)
    /\ IF amount <= 0 \/ sender = recipient
       THEN /\ proc' = [proc EXCEPT ![p] = Finished(p, "InvalidInput")]
            /\ sess' = sess
       ELSE /\ proc' = [proc EXCEPT ![p] =
                    [IdleProc EXCEPT !.pc = "leg", !.op = "ctf", !.leg = 1, !.s = sender,
                                     !.r = recipient, !.amount = amount,
                                     !.ttype = TRANSFER, !.tries = 1]]
            /\ sess' = [sess EXCEPT ![p] = [NoSession EXCEPT !.active = TRUE]]
    /\ UNCHANGED <<db, schemaVersion, nops>>
    /\ UnchangedHistory

\* one Wallet.processTransaction call of the handler (224-248), in the session the
\* static opens for itself: it commits on its own (wallet.model.ts:532-533), or throws
\* for insufficient funds after aborting its own transaction (504-506, 544-547)
StaticLeg(p) ==
    /\ proc[p].pc = "leg"
    /\ FindActiveByOwner(IF proc[p].leg = 1 THEN proc[p].s ELSE proc[p].r) # 0
          \/ FreeIds # {}
    /\ LET userId == IF proc[p].leg = 1 THEN proc[p].s ELSE proc[p].r
           w == UpsertedId(userId)
           balance == Upserted(userId)[w].balance
       IN IF StaticInsufficient(proc[p].ttype, balance, proc[p].amount)
          THEN /\ db' = db
               /\ nops' = nops
               /\ proc' = [proc EXCEPT ![p] =
                        [@ EXCEPT !.pc = "abortOuter", !.err = "InsufficientFunds"]]
          ELSE /\ db' = StaticCommitted(userId, proc[p].amount, proc[p].ttype)
               /\ nops' = nops + 1
               /\ proc' = [proc EXCEPT ![p] =
                        IF proc[p].leg = 1
                        THEN [@ EXCEPT !.leg = 2, !.w = w]
                        ELSE [@ EXCEPT !.pc = "commitOuter", !.ret = w]]
    /\ UNCHANGED <<schemaVersion, sess>>
    /\ UnchangedHistory

\* a store operation of the static fails (save refused, write conflict, network):
\* the static aborts its own transaction and rethrows (544-547)
StaticFault(p) ==
    /\ proc[p].pc = "leg"
    /\ proc' = [proc EXCEPT ![p] = [@ EXCEPT !.pc = "abortOuter", !.err = "Fault"]]
    /\ UNCHANGED <<db, schemaVersion, sess, nops>>
    /\ UnchangedHistory

\* session.commitTransaction() of the handler (250-251) and the 201 answer
CommitOuter(p) ==
    /\ proc[p].pc = "commitOuter"
    /\ db' = CommittedStore(p)
    /\ sess' = SessionsAfterEnd(p, sess[p].held)
    /\ proc' = [proc EXCEPT ![p] = Finished(p, "ok")]
    /\ commitLog' = [w \in WalletIds |->
            IF w \in {proc[p].w, proc[p].ret}
            THEN Append(commitLog[w], <<proc[p].ttype, proc[p].amount>>)
            ELSE commitLog[w]]
    /\ UNCHANGED <<schemaVersion, nops, call, extra>>

\* the handler's catch (260-264): session.abortTransaction() and the rethrow
AbortOuter(p) ==
    /\ proc[p].pc = "abortOuter"
    /\ db' = AbortedStore(p)
    /\ sess' = SessionsAfterEnd(p, {})
    /\ proc' = [proc EXCEPT ![p] = Finished(p, proc[p].err)]
    /\ UNCHANGED <<schemaVersion, nops>>
    /\ UnchangedHistory

\* the users that send and receive: users 1 and 2 hold a wallet, user 3 holds none yet
ControllerUsers == {1, 2, 3}

InitController ==
    /\ \E f \in [{1, 2} -> {0, SeedBalance}] :
         /\ db = [w \in WalletIds |->
                    IF w \in {1, 2}
                    THEN [LedgerWallet(w) EXCEPT
                            !.balance = f[w],
                            !.transactions =
                                IF f[w] = 0 THEN <<>>
                                ELSE <<StaticRecord(DEPOSIT, f[w], f[w])>>]
                    ELSE NoWallet]
         /\ commitLog = [w \in WalletIds |->
                    IF w \in {1, 2} /\ f[w] > 0 THEN <<<<DEPOSIT, f[w]>>>> ELSE <<>>]
    /\ schemaVersion = 1
    /\ proc = [p \in Procs |-> IdleProc]
    /\ sess = [p \in Procs |-> NoSession]
    /\ nops = 0
    /\ now = 0
    /\ OtherServicesIdle
    /\ call = NoCall

NextController ==
    \/ \E p \in Procs, s \in ControllerUsers, r \in ControllerUsers, a \in Amounts :
            ControllerTransfer(p, s, r, a)
    \/ \E p \in Procs : StaticLeg(p)
    \/ \E p \in Procs : StaticFault(p)
    \/ \E p \in Procs : CommitOuter(p)
    \/ \E p \in Procs : AbortOuter(p)

SpecController == InitController /\ [][NextController]_vars

\* ---- transaction references ---------------------------------------------------
\* investor.service.ts:522  `tx_${Date.now()}_${Math.floor(Math.random() * 1000)}`
Reference(time, random) == <<"tx", time, random>>

\* the record of 512-527 with its reference
WithReference(txn, reference) ==
    [type |-> txn.type, amount |-> txn.amount, balanceBefore |-> txn.balanceBefore,
     balanceAfter |-> txn.balanceAfter, peer |-> txn.peer, reference |-> reference]

\* the references held by the transactions of document d
References(d) == {d.transactions[i].reference : i \in 1..Len(d.transactions)}

\* the unique index { 'transactions.reference': 1 } the first schema version declares
\* (wallet.model.ts:232-236; the second declares a plain index, 821-825): a save of
\* wallet w is refused (E11000) when a reference of it stands in another document
\* of `store`.  The entries of one document are not compared with each other
ReferenceTaken(store, w, reference) ==
    /\ schemaVersion = 1
    /\ \E v \in WalletIds \ {w} : store[v].exists /\ reference \in References(store[v])

\* wallet w of `store` after a processTransaction of `ttype` and `amount` ran on it,
\* alone, to its save (496-531); `store` unchanged when the call would throw
Applied(store, w, ttype, amount, peer, reference) ==
    LET newBalance == store[w].balance + Signed(ttype, amount)
    IN IF InsufficientFunds(ttype, newBalance, amount)
          \/ ReferenceTaken(store, w, reference)
       THEN store
       ELSE [store EXCEPT ![w] =
                [@ EXCEPT !.balance = newBalance,
                          !.transactions =
                              Append(@, WithReference(
                                  TransactionData(ttype, newBalance, amount, peer),
                                  reference))]]

\* Date.now() moves on
Tick ==
    /\ now < MaxClock
    /\ now' = now + 1
    /\ UNCHANGED <<db, schemaVersion, proc, sess, commitLog, nops, call, other>>

\* processTransaction(w, amount, DEPOSIT) run with no other request in flight:
\* it commits the adjusted balance and the record, or aborts and changes nothing
DepositAt(w, amount, random) ==
    /\ db[w].exists /\ ValidAmount(amount)
    /\ Len(db[w].transactions) < MaxRecords
    /\ db' = Applied(db, w, DEPOSIT, amount, 0, Reference(now, random))
    /\ UNCHANGED <<schemaVersion, proc, sess, commitLog, nops, call, extra>>

\* transferFunds(s, r, amount) run with no other request in flight: the sender leg,
\* then the recipient leg on what the sender leg left in the session (624-653), and
\* the commit of both; a leg that throws aborts the whole and changes nothing
TransferAt(s, r, amount, random1, random2) ==
    /\ s # r /\ ValidAmount(amount)
    /\ db[s].exists /\ db[r].exists /\ ~AssetMismatch(db[s], db[r])
    /\ Len(db[s].transactions) < MaxRecords /\ Len(db[r].transactions) < MaxRecords
    /\ LET leg1 == Applied(db, s, TRANSFER, amount, r, Reference(now, random1))
           leg2 == Applied(leg1, r, TRANSFER, amount, s, Reference(now, random2))
       IN db' = IF leg1 = db \/ leg2 = leg1 THEN db ELSE leg2
    /\ UNCHANGED <<schemaVersion, proc, sess, commitLog, nops, call, extra>>

Randoms == 0..MaxRandom

\* wallets 1 and 2 funded by a deposit each, recorded in the millisecond before the
\* clock starts, with different suffixes
InitReference ==
    /\ db = [w \in WalletIds |->
                IF w \in {1, 2}
                THEN [LedgerWallet(w) EXCEPT
                        !.balance = SeedBalance,
                        !.transactions =
                            <<WithReference(DepositRecord(0, SeedBalance),
                                            Reference(-1, w - 1))>>]
                ELSE LedgerWallet(w)]
    /\ schemaVersion \in {1, 2}
    /\ proc = [p \in Procs |-> IdleProc]
    /\ sess = [p \in Procs |-> NoSession]
    /\ commitLog = [w \in WalletIds |-> <<>>]
    /\ nops = 0
    /\ now = 0
    /\ OtherServicesIdle
    /\ call = NoCall

NextReference ==
    \/ Tick
    \/ \E w \in WalletIds, a \in Amounts, x \in Randoms : DepositAt(w, a, x)
    \/ \E s \in WalletIds, r \in WalletIds, a \in Amounts, x \in Randoms, y \in Randoms :
            TransferAt(s, r, a, x, y)

SpecReference == InitReference /\ [][NextReference]_vars

\* ---- investments: InvestorService.createInvestment and exitInvestment ---------

Companies == {1, 2}

\* company.status of Company.findById (25-29); company 2 is not verified
CompanyVerified(c) == c = 1

Investors == {1, 2}

\* findOne({user, company, isActive: true}) (32-36): the _id of an active
\* investment of the pair, 0 when there is none
ActiveInvestment(user, c) ==
    IF \E i \in 1..Len(investments) :
           /\ investments[i].user = user
           /\ investments[i].company = c
           /\ investments[i].isActive
    THEN CHOOSE i \in 1..Len(investments) :
           /\ investments[i].user = user
           /\ investments[i].company = c
           /\ investments[i].isActive
    ELSE 0

\* the index {user, company, isActive} of the investors collection taken as not unique
NoUniqueIndex(user, c) == FALSE

\* the unique partial index over {user, company, isActive} of the documents with
\* isActive true refuses a second active document of the pair
UniqueIndexRefuses(user, c) == ActiveInvestment(user, c) # 0

\* createInvestment up to its second await: the company is looked up, then the
\* active investment of the pair; either can end the call with BadRequestError
CreateInvestment(p, user, c) ==
    /\ req[p].pc = "idle"
    /\ Len(investments) < MaxInvestments
    /\ req' = [req EXCEPT ![p] =
          IF ~CompanyVerified(c) \/ ActiveInvestment(user, c) # 0
          THEN [IdleReq EXCEPT !.op = "ci", !.user = user, !.target = c,
                               !.result = "BadRequest"]
          ELSE [IdleReq EXCEPT !.pc = "create", !.op = "ci", !.user = user,
                               !.target = c]]
    /\ UNCHANGED <<db, schemaVersion, proc, sess, commitLog, nops, call, now,
                   investments, orders, company>>

\* this.create(...) (43-50): the insert, which the unique index can refuse
InsertInvestment(p) ==
    /\ req[p].pc = "create" /\ req[p].op = "ci"
    /\ IF UniqueIndexRefuses(req[p].user, req[p].target)
       THEN /\ req' = [req EXCEPT ![p] = [@ EXCEPT !.pc = "idle", !.result = "DuplicateKey"]]
            /\ UNCHANGED investments
       ELSE /\ investments' = Append(investments,
                [user |-> req[p].user, company |-> req[p].target, isActive |-> TRUE])
            /\ req' = [req EXCEPT ![p] = [@ EXCEPT !.pc = "idle", !.result = "ok",
                                                  !.doc = Len(investments) + 1]]
    /\ UNCHANGED <<db, schemaVersion, proc, sess, commitLog, nops, call, now,
                   orders, company>>

\* exitInvestment up to its save: findOne({_id, user, isActive: true}) (63-71)
ExitInvestment(p, user, id) ==
    /\ req[p].pc = "idle"
    /\ req' = [req EXCEPT ![p] =
          IF /\ id \in 1..Len(investments)
             /\ investments[id].user = user
             /\ investments[id].isActive
          THEN [IdleReq EXCEPT !.pc = "save", !.op = "xi", !.user = user, !.doc = id]
          ELSE [IdleReq EXCEPT !.op = "xi", !.user = user, !.result = "NotFound"]]
    /\ UNCHANGED <<db, schemaVersion, proc, sess, commitLog, nops, call, now,
                   investments, orders, company>>

\* investment.isActive = false; investment.save() (73-75)
SaveExit(p) ==
    /\ req[p].pc = "save" /\ req[p].op = "xi"
    /\ investments' = [investments EXCEPT ![req[p].doc] = [@ EXCEPT !.isActive = FALSE]]
    /\ req' = [req EXCEPT ![p] = [@ EXCEPT !.pc = "idle", !.result = "ok"]]
    /\ UNCHANGED <<db, schemaVersion, proc, sess, commitLog, nops, call, now,
                   orders, company>>

InitInvestment ==
    /\ db = [w \in WalletIds |-> NoWallet]
    /\ schemaVersion = 1
    /\ proc = [p \in Procs |-> IdleProc]
    /\ sess = [p \in Procs |-> NoSession]
    /\ commitLog = [w \in WalletIds |-> <<>>]
    /\ nops = 0
    /\ call = NoCall
    /\ now = 0
    /\ OtherServicesIdle

NextInvestment ==
    \/ \E p \in Procs, user \in Investors, c \in Companies : CreateInvestment(p, user, c)
    \/ \E p \in Procs : InsertInvestment(p)
    \/ \E p \in Procs, user \in Investors, id \in 1..MaxInvestments :
           ExitInvestment(p, user, id)
    \/ \E p \in Procs : SaveExit(p)

SpecInvestment == InitInvestment /\ [][NextInvestment]_vars

\* ---- the admin balance adjustment ----------------------------------------------

\* walletService.findOne({ ownerId: userId }) (part_013:310): the first wallet of
\* the owner, active or not, 0 when none
FindByOwner(userId) ==
    LET hits == {w \in WalletIds : db[w].exists /\ db[w].ownerId = userId}
    IN IF hits = {} THEN 0 ELSE CHOOSE w \in hits : \A v \in hits : w <= v

\* part_013:319-321
AdminTransactionType(type) == IF type = "add" THEN "bonus" ELSE "commission"

AdminTypes == {"add", "subtract", "set"}

AdminUsers == {1, 2, 3}

\* adminUpdateWalletBalance (part_013:298-343): the checks of type and amount, the
\* lookup of the user's wallet, then walletService.processTransaction on it
AdminUpdateWalletBalance(p, userId, amount, type) ==
    /\ CanStart(p)
    /\ IF type \notin {"add", "subtract"} \/ amount <= 0
       THEN /\ proc' = [proc EXCEPT ![p] = Finished(p, "InvalidInput")]
            /\ UNCHANGED <<db, schemaVersion, sess, nops>>
            /\ UnchangedHistory
       ELSE IF FindByOwner(userId) = 0
       THEN /\ proc' = [proc EXCEPT ![p] = Finished(p, "NotFound")]
            /\ UNCHANGED <<db, schemaVersion, sess, nops>>
            /\ UnchangedHistory
       ELSE ProcessTransaction(p, FindByOwner(userId), amount, AdminTransactionType(type))

NextAdmin ==
    \/ \E p \in Procs, userId \in AdminUsers, a \in Amounts, type \in AdminTypes :
            AdminUpdateWalletBalance(p, userId, a, type)
    \/ \E p \in Procs : Save(p)
    \/ \E p \in Procs : Commit(p)
    \/ \E p \in Procs : Abort(p)
    \/ \E p \in Procs : Fault(p)

SpecAdmin == Init /\ [][NextAdmin]_vars

\* ---- the two implementations of processTransaction side by side ----------------

Balances == 0..MaxBalance

\* WalletService.processTransaction (investor.service.ts:496-509) on a wallet of
\* the given balance: <<accepted, resulting balance>>
ServiceOutcome(ttype, balance, amount) ==
    LET newBalance == balance + Signed(ttype, amount)
    IN IF InsufficientFunds(ttype, newBalance, amount)
       THEN <<FALSE, balance>>
       ELSE <<TRUE, newBalance>>

\* Wallet.processTransaction (wallet.model.ts:497-508) on a wallet of the given
\* balance: <<accepted, resulting balance>>
StaticOutcome(ttype, balance, amount) ==
    IF StaticInsufficient(ttype, balance, amount)
    THEN <<FALSE, balance>>
    ELSE <<TRUE, StaticBalance(ttype, balance, amount)>>

\* one request handed to both implementations
ProcessBoth ==
    /\ call.fn = "processBoth" /\ call.pc = "called"
    /\ call' = [call EXCEPT !.pc = "done",
                   !.service = ServiceOutcome(call.ttype, call.balance, call.amount),
                   !.static = StaticOutcome(call.ttype, call.balance, call.amount)]
    /\ UNCHANGED <<db, schemaVersion, proc, sess, commitLog, nops, extra>>

InitBoth ==
    /\ db = [w \in WalletIds |-> LedgerWallet(w)]
    /\ schemaVersion = 1
    /\ proc = [p \in Procs |-> IdleProc]
    /\ sess = [p \in Procs |-> NoSession]
    /\ commitLog = [w \in WalletIds |-> <<>>]
    /\ nops = 0
    /\ now = 0
    /\ OtherServicesIdle
    /\ \E ttype \in TransactionType, balance \in Balances, amount \in 1..MaxBalance :
            call = [fn |-> "processBoth", pc |-> "called", ttype |-> ttype,
                    balance |-> balance, amount |-> amount,
                    service |-> <<FALSE, 0>>, static |-> <<FALSE, 0>>]

NextBoth == ProcessBoth

SpecBoth == InitBoth /\ [][NextBoth]_vars

\* ---- orders: cancelOrder -----------------------------------------------------------

\* order.model.ts:5-10
PENDING == "pending"
COMPLETED == "completed"
CANCELLED == "cancelled"
FAILED == "failed"
OrderStatus == {PENDING, COMPLETED, CANCELLED, FAILED}

OrderUsers == {1, 2}

OrderIds == {1, 2, 3}

\* findOne({ _id, user, status: PENDING }) (order.service.ts:67-71,
\* order.controller.ts:106-110): the _id when the document matches, else 0
FindPendingOrder(id, user) ==
    IF /\ id \in 1..Len(orders)
       /\ orders[id].user = user
       /\ orders[id].status = PENDING
    THEN id ELSE 0

\* cancelOrder up to its save: the lookup, and BadRequestError on a miss (73-75)
CancelOrder(p, id, user) ==
    /\ req[p].pc = "idle"
    /\ req' = [req EXCEPT ![p] =
          IF FindPendingOrder(id, user) # 0
          THEN [IdleReq EXCEPT !.pc = "save", !.op = "co", !.user = user,
                               !.target = id, !.doc = id]
          ELSE [IdleReq EXCEPT !.op = "co", !.user = user, !.target = id,
                               !.result = "BadRequest"]]
    /\ UNCHANGED <<db, schemaVersion, proc, sess, commitLog, nops, call, now,
                   investments, orders, company>>

\* order.status = CANCELLED; order.cancelledAt = new Date(); order.save() (77-80):
\* the save sets the two modified paths on the document of that _id
SaveCancel(p) ==
    /\ req[p].pc = "save" /\ req[p].op = "co"
    /\ orders' = [orders EXCEPT ![req[p].doc] =
                    [@ EXCEPT !.status = CANCELLED, !.cancelledAt = now]]
    /\ req' = [req EXCEPT ![p] = [@ EXCEPT !.pc = "idle", !.result = "ok"]]
    /\ UNCHANGED <<db, schemaVersion, proc, sess, commitLog, nops, call, now,
                   investments, company>>

\* two orders: one of user 1 in any status, one of user 2 pending; cancelledAt -1
\* stands for a date before the run, or none
InitOrder ==
    /\ db = [w \in WalletIds |-> NoWallet]
    /\ schemaVersion = 1
    /\ proc = [p \in Procs |-> IdleProc]
    /\ sess = [p \in Procs |-> NoSession]
    /\ commitLog = [w \in WalletIds |-> <<>>]
    /\ nops = 0
    /\ call = NoCall
    /\ now = 0
    /\ investments = <<>>
    /\ company = NoCompany
    /\ req = [p \in Procs |-> IdleReq]
    /\ \E status \in OrderStatus :
          orders = <<[user |-> 1, status |-> status, cancelledAt |-> -1],
                     [user |-> 2, status |-> PENDING, cancelledAt |-> -1]>>

NextOrder ==
    \/ \E p \in Procs, id \in OrderIds, user \in OrderUsers : CancelOrder(p, id, user)
    \/ \E p \in Procs : SaveCancel(p)
    \/ Tick

SpecOrder == InitOrder /\ [][NextOrder]_vars

\* ---- the bank accounts of a company -------------------------------------------------
\* addBankAccount, updateBankAccount and verifyBankAccount read the company in a
\* transaction and write it in the same transaction; the store refuses the write of a
\* transaction whose snapshot of the document is no longer the committed one.
\* removeBankAccount is a single findByIdAndUpdate outside any transaction.

\* position of the account with that _id in an array of accounts, 0 when absent
AccountIndex(accounts, id) ==
    IF \E i \in 1..Len(accounts) : accounts[i].id = id
    THEN CHOOSE i \in 1..Len(accounts) : accounts[i].id = id
    ELSE 0

\* some account other than the one at idx is primary (base.service.ts:862-864, 1119-1121)
HasPrimary(accounts, idx) ==
    \E i \in 1..Len(accounts) : accounts[i].isPrimary /\ i # idx

\* an update that marks an account primary and leaves the other accounts alone
MadePrimaryKeepingOthers(accounts, idx, isPrimary) ==
    [accounts EXCEPT ![idx] = [@ EXCEPT !.isPrimary =
        IF isPrimary = "true" THEN TRUE
        ELSE IF ~HasPrimary(accounts, idx) THEN TRUE
        ELSE IF isPrimary = "false" THEN FALSE ELSE @]]

\* updateBankAccount 851-871 on the array: data.isPrimary === true makes the account
\* the only primary one; otherwise the account takes data.isPrimary when given, and
\* becomes primary when no other account is
UpdatedAccounts(accounts, idx, isPrimary) ==
    IF isPrimary = "true"
    THEN [i \in 1..Len(accounts) |-> [accounts[i] EXCEPT !.isPrimary = (i = idx)]]
    ELSE [accounts EXCEPT ![idx] = [@ EXCEPT !.isPrimary =
            IF ~HasPrimary(accounts, idx) THEN TRUE
            ELSE IF isPrimary = "false" THEN FALSE ELSE @]]

\* verifyBankAccount 1099-1125, 1127-1131: the positional $set on the committed
\* array: isVerified, and isPrimary when the function found the account verified
\* and no other account primary in what it had read
VerifiedAccounts(accounts, idx, isVerified, makePrimary) ==
    [accounts EXCEPT ![idx] = [@ EXCEPT
        !.isVerified = isVerified,
        !.isPrimary = IF makePrimary THEN TRUE ELSE @]]

\* $pull: { bankAccounts: { _id: accountId } } (1041)
PulledAccounts(accounts, id) ==
    LET keep == {i \in 1..Len(accounts) : accounts[i].id # id}
        Rank(i) == Cardinality({j \in keep : j <= i})
    IN [k \in 1..Cardinality(keep) |->
            accounts[CHOOSE i \in keep : Rank(i) = k]]

\* the requests whose snapshot of the company a committed write makes stale
StaleAfterWrite(p) ==
    [q \in Procs |-> IF q # p /\ req[q].pc = "write"
                     THEN [req[q] EXCEPT !.stale = TRUE] ELSE req[q]]

\* a write that the store lets through whatever the snapshot it was decided on
NeverConflicts(p) == FALSE

\* the write of a transaction whose snapshot is stale is refused (WriteConflict)
BankWriteConflict(p) == req[p].stale

\* the first store operation of the three transactional functions:
\* Company.findById(companyId).session(session) (747, 822, 1073)
ReadCompany(p, op, id, arg) ==
    /\ req[p].pc = "idle"
    /\ op = "add" => company.created < MaxAccounts
    /\ req' = [req EXCEPT ![p] =
          [IdleReq EXCEPT !.pc = "write", !.op = op, !.target = id, !.arg = arg,
                          !.snap = company.bankAccounts]]
    /\ UNCHANGED <<db, schemaVersion, proc, sess, commitLog, nops, call, now,
                   investments, orders, company>>

\* a transactional function ends: p's request record with the result
BankDone(p, result) ==
    [StaleAfterWrite(p) EXCEPT ![p] = [IdleReq EXCEPT !.result = result]]

\* the function ends without a committed write: it throws, or returns the company
\* it has read
BankFails(p, result) ==
    /\ req' = [req EXCEPT ![p] = [IdleReq EXCEPT !.result = result]]
    /\ UNCHANGED company

\* the function commits the array it has computed
BankCommits(p, accounts, created) ==
    IF BankWriteConflict(p)
    THEN BankFails(p, "WriteConflict")
    ELSE /\ company' = [bankAccounts |-> accounts, created |-> created]
         /\ req' = BankDone(p, "ok")

\* addBankAccount 758-793 (the account number of the new account is its _id here):
\* the duplicate check, the push of the account with isPrimary false, save (a $push
\* on the committed array) and commit.  isPrimary is assigned on the pushed object
\* once the array holds one account (785-787), after push has cast the object into
\* the array: the stored account is followed both with and without that assignment
AddBankAccount(p) ==
    /\ req[p].pc = "write" /\ req[p].op = "add"
    /\ \E primary \in {FALSE} \cup (IF req[p].snap = <<>> THEN {TRUE} ELSE {}) :
          BankCommits(p, Append(company.bankAccounts,
                          [id |-> company.created + 1, isPrimary |-> primary,
                           isVerified |-> FALSE]),
                      company.created + 1)
    /\ UNCHANGED <<db, schemaVersion, proc, sess, commitLog, nops, call, now,
                   investments, orders>>

\* updateBankAccount 827-876
UpdateBankAccount(p) ==
    /\ req[p].pc = "write" /\ req[p].op = "update"
    /\ LET idx == AccountIndex(req[p].snap, req[p].target)
       IN IF idx = 0
          THEN BankFails(p, "NotFound")
          ELSE BankCommits(p, UpdatedAccounts(req[p].snap, idx, req[p].arg),
                           company.created)
    /\ UNCHANGED <<db, schemaVersion, proc, sess, commitLog, nops, call, now,
                   investments, orders>>

\* verifyBankAccount 1078-1138; an account already in the wanted state is returned
\* as it is (1087-1089); findOneAndUpdate that matches no account gives null (1133)
VerifyBankAccount(p) ==
    /\ req[p].pc = "write" /\ req[p].op = "verify"
    /\ LET idx == AccountIndex(req[p].snap, req[p].target)
           at == AccountIndex(company.bankAccounts, req[p].target)
           isVerified == req[p].arg = "true"
       IN IF idx = 0
          THEN BankFails(p, "NotFound")
          ELSE IF req[p].snap[idx].isVerified = isVerified
          THEN BankFails(p, "ok")
          ELSE IF at = 0 /\ ~BankWriteConflict(p)
          THEN BankFails(p, "Failed")
          ELSE BankCommits(p, VerifiedAccounts(company.bankAccounts, at, isVerified,
                                  isVerified /\ ~HasPrimary(req[p].snap, idx)),
                           company.created)
    /\ UNCHANGED <<db, schemaVersion, proc, sess, commitLog, nops, call, now,
                   investments, orders>>

\* removeBankAccount 1030-1053: one findByIdAndUpdate on the committed document
RemoveBankAccount(p, id) ==
    /\ req[p].pc = "idle"
    /\ AccountIndex(company.bankAccounts, id) # 0
    /\ company' = [company EXCEPT !.bankAccounts = PulledAccounts(@, id)]
    /\ req' = [StaleAfterWrite(p) EXCEPT ![p] =
                  [IdleReq EXCEPT !.result = "ok"]]
    /\ UNCHANGED <<db, schemaVersion, proc, sess, commitLog, nops, call, now,
                   investments, orders>>

AccountIds == 1..MaxAccounts

\* data.isPrimary of updateBankAccount, isVerified of verifyBankAccount
BankArgs == {"true", "false", "none"}

InitBank ==
    /\ db = [w \in WalletIds |-> NoWallet]
    /\ schemaVersion = 1
    /\ proc = [p \in Procs |-> IdleProc]
    /\ sess = [p \in Procs |-> NoSession]
    /\ commitLog = [w \in WalletIds |-> <<>>]
    /\ nops = 0
    /\ call = NoCall
    /\ now = 0
    /\ OtherServicesIdle

NextBank ==
    \/ \E p \in Procs, id \in AccountIds, arg \in BankArgs :
          \/ ReadCompany(p, "add", 0, "none")
          \/ ReadCompany(p, "update", id, arg)
          \/ arg # "none" /\ ReadCompany(p, "verify", id, arg)
    \/ \E p \in Procs : AddBankAccount(p)
    \/ \E p \in Procs : UpdateBankAccount(p)
    \/ \E p \in Procs : VerifyBankAccount(p)
    \/ \E p \in Procs, id \in AccountIds : RemoveBankAccount(p, id)

SpecBank == InitBank /\ [][NextBank]_vars

\* ---- the session of a ledger operation ------------------------------------------
\* One call of getOrCreateWallet, processTransaction or transferFunds followed
\* through its try, catch and finally blocks.  call.events lists what the call has
\* done to its ClientSession: "start" (startSession and startTransaction),
\* "commit" (commitTransaction returned), "commitFailed" (commitTransaction threw),
\* "abort" (abortTransaction returned), "abortRefused" (abortTransaction threw),
\* "end" (endSession).

SessionFunctions == {"getOrCreateWallet", "processTransaction", "transferFunds"}

\* the store operations of each function between startTransaction and
\* commitTransaction, in order: findOne and create (220-227); update and save
\* (496-531); the two findById and the two legs (601-653).  getOrCreateWallet skips
\* create when findOne has found the wallet.
StoreSteps(fn) ==
    IF fn = "getOrCreateWallet" THEN <<"findOne", "create">>
    ELSE IF fn = "processTransaction" THEN <<"update", "save">>
    ELSE <<"find", "leg1", "leg2">>

\* what a store operation of the function can throw; the funds check (507) spares
\* deposits
StepErrors(step, ttype) ==
    IF step = "update"
    THEN {"NotFound", "Fault"} \cup (IF ttype # DEPOSIT THEN {"InsufficientFunds"} ELSE {})
    ELSE IF step = "find" THEN {"NotFound", "AssetMismatch", "Fault"}
    ELSE IF step \in {"leg1", "leg2"} THEN {"NotFound", "InsufficientFunds", "Fault"}
    ELSE IF step = "create" THEN {"DuplicateKey", "Fault"}
    ELSE {"Fault"}

\* the call returns or throws
Ended(c, pc, result) == [c EXCEPT !.pc = pc, !.result = result]

\* the checks ahead of startSession (183-191, 472-482, 588-594), then startSession
\* and startTransaction (193-194, 487-491, 596-597); processTransaction handed a
\* session starts none
EnterFunction ==
    /\ call.fn \in SessionFunctions /\ call.pc = "called"
    /\ call' = IF ~call.valid
               THEN Ended(call, "thrown", "InvalidInput")
               ELSE [call EXCEPT !.pc = "step", !.at = 1,
                        !.events = IF call.own THEN Append(@, "start") ELSE @]
    /\ UNCHANGED <<db, schemaVersion, proc, sess, commitLog, nops, extra>>

\* the next store operation of the try block returns, or throws into the catch
StoreStep ==
    /\ call.fn \in SessionFunctions /\ call.pc = "step"
    /\ LET steps == StoreSteps(call.fn)
           step == steps[call.at]
           last == call.at = Len(steps)
                   \/ (step = "findOne" /\ call.found)
       IN \/ call' = IF ~last THEN [call EXCEPT !.at = @ + 1]
                     ELSE IF call.own THEN [call EXCEPT !.pc = "commit"]
                     ELSE Ended(call, "returned", "ok")
          \/ \E error \in StepErrors(step, call.ttype) :
                call' = [call EXCEPT !.pc = "catch", !.result = error]
    /\ UNCHANGED <<db, schemaVersion, proc, sess, commitLog, nops, extra>>

\* commitTransaction (228, 534, 655).  processTransaction ends the session right
\* after it (535); the other two return and reach endSession in finally (234, 661).
\* A commitTransaction that throws is caught by the catch of the same try.
CommitTransaction ==
    /\ call.fn \in SessionFunctions /\ call.pc = "commit"
    /\ \/ call' = Ended([call EXCEPT !.events = @ \o <<"commit", "end">>],
                        "returned", "ok")
       \/ call' = [call EXCEPT !.pc = "catch", !.result = "TransientStoreConflict",
                               !.events = Append(@, "commitFailed")]
    /\ UNCHANGED <<db, schemaVersion, proc, sess, commitLog, nops, extra>>

\* commitTransaction has been called on the session
CommitCalled(events) ==
    \E i \in 1..Len(events) : events[i] \in {"commit", "commitFailed"}

\* the catch blocks (230-232, 540-546, 657-659) and finally (233-235, 660-662).
\* abortTransaction on a session whose commitTransaction has been called throws;
\* in processTransaction the endSession that follows it (543) is then skipped and
\* the error of abortTransaction is what the call throws; in the other two
\* functions finally still ends the session.  processTransaction handed a session
\* rethrows and leaves the session alone (541).
CatchBlock ==
    /\ call.fn \in SessionFunctions /\ call.pc = "catch"
    /\ call' =
          IF ~call.own THEN Ended(call, "thrown", call.result)
          ELSE IF CommitCalled(call.events)
          THEN Ended([call EXCEPT !.events =
                        IF call.fn = "processTransaction"
                        THEN Append(@, "abortRefused")
                        ELSE @ \o <<"abortRefused", "end">>],
                     "thrown", "TransactionError")
          ELSE Ended([call EXCEPT !.events = @ \o <<"abort", "end">>],
                     "thrown", call.result)
    /\ UNCHANGED <<db, schemaVersion, proc, sess, commitLog, nops, extra>>

\* a call of one of the three functions with arguments that pass the checks or not;
\* processTransaction with its own session or, as a leg of transferFunds, with the
\* session its caller has started
InitSession ==
    /\ db = [w \in WalletIds |-> LedgerWallet(w)]
    /\ schemaVersion = 1
    /\ proc = [p \in Procs |-> IdleProc]
    /\ sess = [p \in Procs |-> NoSession]
    /\ commitLog = [w \in WalletIds |-> <<>>]
    /\ nops = 0
    /\ now = 0
    /\ OtherServicesIdle
    /\ \E fn \in SessionFunctions, valid \in BOOLEAN, own \in BOOLEAN, found \in BOOLEAN,
          ttype \in {DEPOSIT, WITHDRAWAL, TRANSFER} :
          /\ fn # "processTransaction" => own /\ ttype = TRANSFER
          /\ ~own => ttype = TRANSFER
          /\ fn # "getOrCreateWallet" => ~found
          /\ call = [fn |-> fn, pc |-> "called", valid |-> valid, own |-> own,
                     found |-> found, ttype |-> ttype, at |-> 0, result |-> "none",
                     events |-> IF own THEN <<>> ELSE <<"start">>]

NextSession ==
    \/ EnterFunction
    \/ StoreStep
    \/ CommitTransaction
    \/ CatchBlock

SpecSession == InitSession /\ [][NextSession]_vars

\* ---- properties -------------------------------------------------------------
Last(seq) == seq[Len(seq)]

RECURSIVE SignedSum(_)
SignedSum(log) ==
    IF log = <<>> THEN 0
    ELSE Signed(Last(log)[1], Last(log)[2]) + SignedSum(SubSeq(log, 1, Len(log) - 1))

\* request p takes the step that commits its transfer and returns both records
TransferReturns(p) ==
    proc[p].op = "tf" /\ proc[p].pc = "commit" /\ proc'[p].pc = "idle" /\ proc'[p].result = "ok"

\* C1 Conservation: a transferFunds call that completes with amount A lowers the
\* sender's balance by A, raises the recipient's balance by A and leaves their sum unchanged.
C1_Conservation ==
    [][\A p \in Procs : TransferReturns(p) =>
          LET s == proc[p].s
              r == proc[p].r
              A == proc[p].amount
          IN /\ db'[s].balance = db[s].balance - A
             /\ db'[r].balance = db[r].balance + A
             /\ db'[s].balance + db'[r].balance = db[s].balance + db[r].balance]_vars

\* C2 No negative balance: every committed balance is >= 0, a debit that would take the
\* balance below zero is rejected, and the rejection leaves the committed wallets as they were.
C2_NoNegativeBalance ==
    /\ [](\A w \in WalletIds : db[w].balance >= 0)
    /\ [](\A p \in Procs :
            (proc[p].pc \in {"save", "commit"} /\ proc[p].ttype # DEPOSIT)
                => proc[p].seen - proc[p].amount >= 0)
    /\ [][\A p \in Procs :
            (proc[p].pc = "abort" /\ proc[p].err = "InsufficientFunds" /\ proc'[p].pc = "idle")
                => db' = db]_vars

\* a debit was rejected for insufficient funds while it would have gone below zero
C2_Witness ==
    \E p \in Procs :
        /\ proc[p].pc = "abort" /\ proc[p].err = "InsufficientFunds"
        /\ proc[p].seen - proc[p].amount < 0
        /\ proc[p].w \in sess[p].held

\* C3 Atomic transfer failure: no step of a transferFunds call other than its successful
\* commit changes a committed wallet, so a transfer whose recipient leg fails leaves the
\* sender's committed balance and transaction list, and the recipient's, as they were.
C3_AtomicTransferFailure ==
    [][\A p \in Procs :
          (proc[p].op = "tf" /\ proc'[p] # proc[p] /\ ~TransferReturns(p)) => db' = db]_vars

\* the recipient leg of a transfer has failed after the sender leg was applied in the session
C3_Witness ==
    \E p \in Procs :
        /\ proc[p].op = "tf" /\ proc[p].leg = 2 /\ proc[p].pc = "abort"
        /\ proc[p].s \in sess[p].held
        /\ sess[p].priv[proc[p].s].balance # db[proc[p].s].balance

\* the outcome of the funds check of a debit is known (no store error hides it)
DebitDecided(p) ==
    /\ proc[p].pc \in {"save", "commit", "abort"}
    /\ proc[p].ttype # DEPOSIT
    /\ proc[p].err \in {"none", "InsufficientFunds"}
    /\ proc[p].w \in sess[p].held

\* C4 Debit acceptance threshold: a processTransaction debit of a on a balance b fails
\* with insufficient funds exactly when b - a < 0.
C4_DebitThreshold ==
    \A p \in Procs :
        (DebitDecided(p) /\ proc[p].op = "pt")
            => (proc[p].err = "InsufficientFunds" <=> proc[p].seen - proc[p].amount < 0)

\* C5 A transfer into an empty wallet completes: a transfer between two distinct existing
\* wallets of one asset fails for insufficient funds only on the sender leg, and only
\* when the sender's balance is below the amount.
C5_TransferCompletes ==
    \A p \in Procs :
        (DebitDecided(p) /\ proc[p].op = "tf" /\ proc[p].err = "InsufficientFunds")
            => (proc[p].leg = 1 /\ proc[p].seen < proc[p].amount)

\* C6 Atomic unit of processTransaction: every committed wallet's balance is the
\* balanceAfter of its last transaction record, or 0 when it has no record.
C6_BalanceMatchesLastRecord ==
    \A w \in WalletIds :
        db[w].exists =>
            db[w].balance = (IF db[w].transactions = <<>> THEN 0
                             ELSE Last(db[w].transactions).balanceAfter)

\* a failure struck between the balance adjustment and the append of the record
C6_Witness ==
    \E p \in Procs :
        /\ proc[p].pc = "abort" /\ proc[p].err = "Fault"
        /\ proc[p].w \in sess[p].held
        /\ sess[p].priv[proc[p].w].balance # db[proc[p].w].balance
        /\ sess[p].priv[proc[p].w].transactions = db[proc[p].w].transactions

\* C7 No lost update: every committed balance is the sum of the signed amounts of the
\* calls that reported success on the wallet, and the wallet has one record per such call.
C7_NoLostUpdate ==
    \A w \in WalletIds :
        /\ db[w].balance = SignedSum(commitLog[w])
        /\ Len(db[w].transactions) = Len(commitLog[w])

\* two calls ran concurrently on one wallet: one holds it, the other was refused
C7_Witness ==
    \E p \in Procs, q \in Procs :
        /\ p # q
        /\ proc[p].pc = "abort" /\ proc[p].err = "WriteConflict"
        /\ proc[p].w \in sess[q].held

\* C8 Wallet uniqueness: at most one wallet document for each
\* (ownerType, ownerId, asset code, asset kind).
C8_WalletUniqueness ==
    \A v \in WalletIds, w \in WalletIds :
        (v # w /\ db[v].exists /\ db[w].exists) => QueryKey(db[v]) # QueryKey(db[w])

\* C9 Get-or-create tolerates the insert race: no getOrCreateWallet call surfaces a
\* duplicate-key error.
C9_NoDuplicateKeyError ==
    \A p \in Procs :
        ~(proc[p].op = "goc" /\ proc[p].pc = "abort" /\ proc[p].err = "DuplicateKey")

\* C10 Append-only chained audit trail: the transaction list of a wallet holds the
\* records of the calls that committed on it, in commit order, and each record's
\* balanceAfter is the next record's balanceBefore.
C10_ChainedAuditTrail ==
    \A w \in WalletIds :
        LET txs == db[w].transactions
        IN /\ Len(txs) = Len(commitLog[w])
           /\ \A i \in 1..Len(txs) :
                /\ <<txs[i].type, txs[i].amount>> = commitLog[w][i]
                /\ i = 1 => txs[i].balanceBefore = 0
                /\ i < Len(txs) => txs[i].balanceAfter = txs[i + 1].balanceBefore

\* a wallet with three chained records, a debit among them
C10_Witness ==
    \E w \in WalletIds :
        /\ Len(db[w].transactions) >= 3
        /\ \E i \in 1..Len(db[w].transactions) : db[w].transactions[i].type # DEPOSIT

\* the sender leg of transfer p was applied in its session on a balance below the amount
SenderShort(p) ==
    /\ proc[p].op = "tf" /\ proc[p].leg = 1
    /\ proc[p].s \in sess[p].held
    /\ proc[p].seen < proc[p].amount

\* C11 Transfer with insufficient sender funds: a transferFunds call whose amount exceeds
\* the sender's balance is rejected on the sender leg with insufficient funds, never
\* writes the recipient, and its failure leaves the committed wallets as they were.
C11_TransferInsufficientFunds ==
    /\ [](\A p \in Procs :
            SenderShort(p) =>
                /\ proc[p].pc = "abort" /\ proc[p].err = "InsufficientFunds"
                /\ proc[p].r \notin sess[p].held
                /\ sess[p].priv[proc[p].s].transactions = db[proc[p].s].transactions)
    /\ [][\A p \in Procs :
            (SenderShort(p) /\ proc'[p] # proc[p])
                => (proc'[p].result = "InsufficientFunds" /\ db' = db)]_vars

\* a transfer of more than the sender holds stands rejected on its sender leg
C11_Witness ==
    \E p \in Procs :
        /\ SenderShort(p)
        /\ proc[p].pc = "abort" /\ proc[p].err = "InsufficientFunds"
        /\ db[proc[p].r].exists /\ ~AssetMismatch(db[proc[p].s], db[proc[p].r])

\* the errors the store labels as transient conflicts of a transaction
TransientConflicts == {"WriteConflict", "TransientStoreConflict"}

\* C12 Bounded internal retry: a ledger call surfaces a transient transaction conflict
\* to its caller only after more than one attempt; a conflict met on the first attempt
\* alone is retried and never returned.
C12_ConflictRetried ==
    \A p \in Procs :
        (proc[p].pc = "idle" /\ proc[p].result \in TransientConflicts) => proc[p].tries > 1

\* C13 Error-to-status mapping: a wallet handler answers a ledger failure of kind
\* NotFound with 404, InsufficientFunds with 409, and AssetMismatch or InvalidInput with
\* 400; the kind of the ledger error decides the status.
C13_StatusFollowsKind ==
    \A p \in Procs :
        proc[p].pc = "abort" =>
            LET status == HandlerStatus(proc[p].op, proc[p].err)
            IN /\ proc[p].err = "NotFound" => status = 404
               /\ proc[p].err = "InsufficientFunds" => status = 409
               /\ proc[p].err \in {"AssetMismatch", "InvalidInput"} => status = 400

FinitePositive(x) == x.t = "number" /\ x.c = "finite" /\ x.v > 0

\* C15 Input validation of processTransaction: a call whose amount is not a finite number
\* above 0, or whose walletId or userId is malformed, never reaches a store operation:
\* it ends with an invalid-input error.
C15_InvalidInputRejected ==
    (call.fn = "processTransaction" /\ call.pc # "called") =>
        ((~FinitePositive(call.amount) \/ call.walletId = "not-an-id"
             \/ call.userId = "not-an-id")
            => (call.pc = "thrown" /\ call.result = "InvalidInput"))

\* the positions of the entries of a list that are marked default
Defaults(addresses) == {i \in 1..Len(addresses) : addresses[i].isDefault}

\* C16 At most one default address: every wallet's address list has at most one entry
\* with isDefault = true, and when it has one, defaultAddress is that entry's address.
C16_AtMostOneDefault ==
    \A w \in WalletIds :
        /\ Cardinality(Defaults(db[w].addresses)) <= 1
        /\ \A i \in Defaults(db[w].addresses) :
                db[w].defaultAddress = db[w].addresses[i].address

\* C17 Address uniqueness within a wallet: no wallet's address list holds the same
\* address string twice.
C17_AddressesUnique ==
    \A w \in WalletIds :
        \A i \in 1..Len(db[w].addresses), j \in 1..Len(db[w].addresses) :
            i # j => db[w].addresses[i].address # db[w].addresses[j].address

\* request p takes the step that saves its setDefaultAddress
DefaultSaved(p) ==
    proc[p].pc = "saveDefault" /\ proc'[p].pc = "idle" /\ proc'[p].result = "ok"

\* C18 setDefaultAddress effect: a call that saves leaves exactly the first entry with
\* the given address marked default, defaultAddress equal to that address, and the
\* addresses and their order as they were; a call for an absent address fails with
\* NotFound and changes nothing.
C18_SetDefaultEffect ==
    [][\A p \in Procs :
          /\ DefaultSaved(p) =>
                LET w == proc[p].w
                    before == db[w].addresses
                    after == db'[w].addresses
                IN /\ Len(after) = Len(before)
                   /\ \A i \in 1..Len(before) : after[i].address = before[i].address
                   /\ Cardinality(Defaults(after)) = 1
                   /\ \A i \in Defaults(after) : after[i].address = proc[p].address
                   /\ db'[w].defaultAddress = proc[p].address
                   /\ \A v \in WalletIds \ {w} : db'[v] = db[v]
          /\ (proc[p].pc = "idle" /\ proc'[p].pc = "idle" /\ proc'[p].result = "NotFound"
                 /\ \A q \in Procs \ {p} : proc'[q] = proc[q])
                => db' = db
          /\ (proc[p].pc = "idle" /\ proc'[p].pc = "saveDefault")
                => AddressExists(db[proc'[p].w].addresses, proc'[p].address)]_vars

\* the default stands on the second entry of a list, where only setDefaultAddress puts it
C18_Witness ==
    \E w \in WalletIds :
        /\ Len(db[w].addresses) >= 2
        /\ db[w].addresses[2].isDefault /\ ~db[w].addresses[1].isDefault
        /\ db[w].defaultAddress = db[w].addresses[2].address

\* the transactions of a list that pass the type filter, in list order
Matching(txs, type) ==
    SelectSeq(txs, LAMBDA t : type = "" \/ t.type = type)

\* a list appended to in time order, newest first
NewestFirst(txs) == [i \in 1..Len(txs) |-> txs[Len(txs) + 1 - i]]

\* the page the contract describes for wallet w
ExpectedPage(w, page, limit, type) ==
    LET sorted == NewestFirst(Matching(db[w].transactions, type))
        first == (page - 1) * limit + 1
        last == Min(page * limit, Len(sorted))
    IN [kind |-> "page", error |-> "",
        transactions |-> SubSeq(sorted, first, last),
        total |-> Len(sorted),
        totalPages |-> (Len(sorted) + limit - 1) \div limit]

\* C19 Transaction history page: for an existing wallet the call returns, with page
\* clamped to >= 1 and limit to 1..100, that slice of the matching transactions sorted
\* newest-first, with total and totalPages = ceil(total / limit); for a missing wallet
\* it fails with NotFound.
C19_TransactionPage ==
    (call.fn = "getWalletWithTransactions" /\ call.pc # "called") =>
        IF db[call.w].exists
        THEN call.result = ExpectedPage(call.w, Max(1, call.page),
                                         Min(Max(1, call.limit), 100), call.type)
        ELSE call.result = Thrown("NotFound")

\* C20 Inactive wallets are excluded from lookup by owner: the wallet the getWallet
\* handler answers with is never one whose isActive is false.
C20_NoInactiveWalletReturned ==
    \A p \in Procs :
        (proc[p].op = "gw" /\ proc[p].pc = "respond")
            => (db[proc[p].ret].exists /\ db[proc[p].ret].isActive)

\* C21 Balance split at rest: whenever no ledger operation is in flight, every wallet
\* has balance = availableBalance + lockedBalance.
C21_BalanceSplitAtRest ==
    (\A p \in Procs : proc[p].pc = "idle") =>
        \A w \in WalletIds :
            db[w].exists => db[w].balance = db[w].availableBalance + db[w].lockedBalance

\* C22 Unique transaction reference: no two transaction records, of one wallet or of
\* two, carry the same reference.
C22_UniqueReferences ==
    \A v \in WalletIds, w \in WalletIds :
        \A i \in 1..Len(db[v].transactions), j \in 1..Len(db[w].transactions) :
            <<v, i>> # <<w, j>> =>
                db[v].transactions[i].reference # db[w].transactions[j].reference

\* list `old` is the beginning of list `new`: same records, same values, same order
IsPrefix(old, new) ==
    Len(old) <= Len(new) /\ \A i \in 1..Len(old) : new[i] = old[i]

\* C23 Transaction records are immutable and never removed: every step leaves each
\* wallet's committed transaction list a prefix of what it becomes, so the list of an
\* earlier committed state is a prefix of the list of every later one.
C23_RecordsNeverChange ==
    [][\A w \in WalletIds : IsPrefix(db[w].transactions, db'[w].transactions)]_vars

\* a wallet holds its first deposit record and a record committed after it
C23_Witness ==
    \E w \in WalletIds :
        /\ Len(db[w].transactions) >= 2
        /\ db[w].transactions[1] = DepositRecord(0, SeedBalance)
        /\ Len(commitLog[w]) = Len(db[w].transactions)

C25_OneActiveInvestment ==
    /\ [](\A i, j \in 1..Len(investments) :
            /\ investments[i].isActive /\ investments[j].isActive
            /\ investments[i].user = investments[j].user
            /\ investments[i].company = investments[j].company
            => i = j)
    /\ [][\A p \in Procs :
            /\ req'[p].op = "ci" /\ req'[p].pc = "idle" /\ req'[p] # req[p]
            => IF ActiveInvestment(req'[p].user, req'[p].target) # 0
               THEN req'[p].result \in {"BadRequest", "DuplicateKey"}
                    /\ investments' = investments
               ELSE \/ ~CompanyVerified(req'[p].target)
                       /\ req'[p].result = "BadRequest" /\ investments' = investments
                    \/ req'[p].result = "ok"
                       /\ investments' = Append(investments,
                              [user |-> req'[p].user, company |-> req'[p].target,
                               isActive |-> TRUE])]_vars

\* a pair whose investment was exited holds a new active one, and a request that
\* raced another for the same pair was refused by the index
C25_Witness ==
    /\ \E i, j \in 1..Len(investments) :
          /\ i < j
          /\ investments[i].user = investments[j].user
          /\ investments[i].company = investments[j].company
          /\ ~investments[i].isActive /\ investments[j].isActive
    /\ \E p \in Procs : req[p].result = "DuplicateKey"

\* C26 Admin balance adjustment direction: an adminUpdateWalletBalance call that ends
\* with success has raised the balance of the user's wallet by the amount when its
\* type is 'add' and lowered it by the amount when its type is 'subtract', and has
\* appended one record; a call that ends with an error has changed nothing.
C26_AdminAdjustmentDirection ==
    [][\A p \in Procs :
          proc[p].op = "pt" /\ proc[p].pc # "idle" /\ proc'[p].pc = "idle"
          => LET w == proc[p].w
                 a == proc[p].amount
             IN IF proc'[p].result = "ok"
                THEN /\ db'[w].balance = db[w].balance
                            + (IF proc[p].ttype = AdminTransactionType("add") THEN a ELSE -a)
                     /\ Len(db'[w].transactions) = Len(db[w].transactions) + 1
                ELSE db' = db]_vars

\* C27 The two implementations of processTransaction agree: for every type, every
\* amount above zero and every starting balance, WalletService.processTransaction and
\* the model static accept or reject alike and, accepting, leave the same balance.
C27_ImplementationsAgree ==
    call.fn = "processBoth" /\ call.pc = "done" => call.service = call.static

\* C28 Order cancellation is a one-way transition from pending: an order changes only
\* from PENDING to CANCELLED and only by a cancelOrder of its owner; a cancelOrder that
\* reaches an order that is not pending, or not the caller's, fails and leaves the order
\* as it was, so that a cancelled order is never changed again and a second cancel fails.
C28_CancelOnlyFromPending ==
    /\ [][\A i \in 1..Len(orders) :
            orders'[i] # orders[i]
            => /\ orders[i].status = PENDING /\ orders'[i].status = CANCELLED
               /\ \E p \in Procs : /\ req[p].op = "co" /\ req[p].doc = i
                                   /\ req[p].user = orders[i].user
                                   /\ req'[p].result = "ok"]_vars
    /\ [][\A p \in Procs :
            /\ req'[p].op = "co" /\ req'[p].pc = "idle" /\ req'[p] # req[p]
            /\ FindPendingOrder(req'[p].target, req'[p].user) = 0
            => req'[p].result = "BadRequest" /\ orders' = orders]_vars

\* C29 At most one primary bank account: in every state reached through
\* addBankAccount, updateBankAccount, verifyBankAccount and removeBankAccount, in any
\* interleaving, the company has at most one bank account with isPrimary true.
C29_AtMostOnePrimary ==
    \A i, j \in 1..Len(company.bankAccounts) :
        company.bankAccounts[i].isPrimary /\ company.bankAccounts[j].isPrimary => i = j

\* the primary mark has moved to the account added second, and a request that had
\* read the company before another one wrote it was refused
C29_Witness ==
    /\ Len(company.bankAccounts) = 2
    /\ ~company.bankAccounts[1].isPrimary /\ company.bankAccounts[1].isVerified
    /\ company.bankAccounts[2].isPrimary
    /\ \E p \in Procs : req[p].result = "WriteConflict"

\* number of times an event stands in a list of session events
Count(events, e) == Cardinality({i \in 1..Len(events) : events[i] = e})

\* C30 Session lifecycle: when getOrCreateWallet, transferFunds or a processTransaction
\* that opened its own session has returned or thrown, the transaction it started was
\* committed or aborted exactly once, it was aborted if the call threw, no
\* abortTransaction came after commitTransaction, and the session was ended exactly
\* once; a processTransaction handed a session has done nothing to that session.
C30_SessionLifecycle ==
    call.fn \in SessionFunctions /\ call.pc \in {"returned", "thrown"}
    => IF ~call.own
       THEN call.events = <<"start">>
       ELSE Count(call.events, "start") = 1
            => /\ Count(call.events, "commit") + Count(call.events, "abort") = 1
               /\ call.pc = "thrown" => Count(call.events, "abort") = 1
               /\ \A i, j \in 1..Len(call.events) :
                     i < j /\ call.events[i] \in {"commit", "commitFailed"}
                     => call.events[j] \notin {"abort", "abortRefused"}
               /\ Count(call.events, "end") = 1

====
